---- MODULE Spec2Model ----
(***************************************************************************)
(* Model of portfolio_resume_ai_agent.py: the completion client with       *)
(* retry (generate_response), the response cache (cached_generate), the    *)
(* update orchestrator (update_resume_flow) and the part of the            *)
(* interactive shell that starts it.                                       *)
(*                                                                         *)
(* Text is a sequence of one-character strings.  The fixed prompt texts    *)
(* are single tokens.  The file system is a function from the paths that   *)
(* exist to their content.                                                 *)
(***************************************************************************)
EXTENDS Integers, Sequences, FiniteSets, TLC

(***************************************************************************)
(* Bounds of the model.                                                    *)
(***************************************************************************)
\* number of update commands the operator issues in one behaviour
MaxRuns == 2
\* length of the content of a message handed to the key computation on its own
MaxContentLen == 2

(***************************************************************************)
(* Program constants.                                                      *)
(***************************************************************************)
BACKUP_SUFFIX == ".bak_aiagent"
PDF_RELATIVE_PATH == "assets\\resume\\Mohammad_Burhan_Resume.pdf"
\* generate_response(messages, retries = 3)
Retries == 3
\* the factor of time.sleep(3 * attempt)
BackoffBase == 3
\* updated_html[:100]
DoctypeWindow == 100
\* updated_html[:200]
HtmlWindow == 200

(***************************************************************************)
(* Text helpers: Python's str operations on sequences of characters.       *)
(***************************************************************************)
Min(S) == CHOOSE x \in S : \A y \in S : x <= y

Pad(c, n) == [i \in 1..n |-> c]

\* s[:n]
Slice(s, n) == SubSeq(s, 1, IF n < Len(s) THEN n ELSE Len(s))

\* s[k:]
Drop(s, k) == SubSeq(s, k + 1, Len(s))

\* str.find: the least 0-based offset of pat in s, or -1
Find(s, pat) ==
    LET hits == {i \in 0..(Len(s) - Len(pat)) : SubSeq(s, i + 1, i + Len(pat)) = pat}
    IN  IF hits = {} THEN -1 ELSE Min(hits)

\* pat in s
Contains(s, pat) == Find(s, pat) # -1

Whitespace == {" ", "\n"}

\* the number of whitespace characters s starts with, and ends with
Leading(s) ==
    CHOOSE n \in 0..Len(s) :
        /\ \A i \in 1..n : s[i] \in Whitespace
        /\ n < Len(s) => s[n + 1] \notin Whitespace

Trailing(s) ==
    CHOOSE n \in 0..Len(s) :
        /\ \A i \in (Len(s) - n + 1)..Len(s) : s[i] \in Whitespace
        /\ n < Len(s) => s[Len(s) - n] \notin Whitespace

\* str.strip()
Strip(s) == SubSeq(s, Leading(s) + 1, Len(s) - Trailing(s))

\* str.lower() of one character.  U+0130 (capital I with dot above) lowers
\* to two code points, so lower() can lengthen a text.
LowerChar(c) ==
    CASE c = "D" -> <<"d">>
      [] c = "O" -> <<"o">>
      [] c = "C" -> <<"c">>
      [] c = "T" -> <<"t">>
      [] c = "Y" -> <<"y">>
      [] c = "P" -> <<"p">>
      [] c = "E" -> <<"e">>
      [] c = "H" -> <<"h">>
      [] c = "M" -> <<"m">>
      [] c = "L" -> <<"l">>
      [] c = "U+0130" -> <<"i", "U+0307">>
      [] OTHER -> <<c>>

RECURSIVE LowerRange(_, _, _)
LowerRange(s, lo, hi) ==
    IF lo > hi THEN <<>>
    ELSE IF lo = hi THEN LowerChar(s[lo])
    ELSE LET mid == (lo + hi) \div 2
         IN  LowerRange(s, lo, mid) \o LowerRange(s, mid + 1, hi)

\* str.lower()
Lower(s) == LowerRange(s, 1, Len(s))

\* the literals the validation searches for
DoctypeLiteral == <<"<", "!", "D", "O", "C", "T", "Y", "P", "E", " ", "h", "t", "m", "l", ">">>
HtmlLiteral == <<"<", "h", "t", "m", "l">>


(***************************************************************************)
(* Validation of the model output (update_resume_flow, "Validate output"). *)
(***************************************************************************)
\* "<!DOCTYPE html>" in updated_html[:100].lower()
DoctypeInWindow(u) == Contains(Lower(Slice(u, DoctypeWindow)), DoctypeLiteral)

\* "<html" in updated_html[:200].lower()
HtmlInWindow(u) == Contains(Lower(Slice(u, HtmlWindow)), HtmlLiteral)

\* the negation of the condition of the validating if: the output is taken as it is
StartsAsHtml(u) == DoctypeInWindow(u) \/ HtmlInWindow(u)

\* html_start = updated_html.lower().find("<html")
HtmlStart(u) == Find(Lower(u), HtmlLiteral)

\* TrimTo cutting one character too many
TrimTo_OffByOne(u, html_start) == Drop(u, html_start + 1)

\* updated_html = updated_html[html_start:]
TrimTo(u, html_start) == Drop(u, html_start)

\* the if html_start > 0 of the partial-HTML branch
TrimApplies(html_start) == html_start > 0

\* Validation without the return of the abort branch
Validation_NoAbort(u) ==
    IF StartsAsHtml(u) \/ ~TrimApplies(HtmlStart(u))
      THEN [ok |-> TRUE, trimmed |-> FALSE, html |-> u]
      ELSE [ok |-> TRUE, trimmed |-> TRUE, html |-> TrimTo(u, HtmlStart(u))]

\* the outcome of the validation: the candidate, or the abort
Validation(u) ==
    IF StartsAsHtml(u)
      THEN [ok |-> TRUE, trimmed |-> FALSE, html |-> u]
      ELSE IF TrimApplies(HtmlStart(u))
             THEN [ok |-> TRUE, trimmed |-> TRUE, html |-> TrimTo(u, HtmlStart(u))]
             ELSE [ok |-> FALSE, trimmed |-> FALSE, html |-> u]

(***************************************************************************)
(* Prompt builder and cache key.                                           *)
(***************************************************************************)
\* system_prompt(): a fixed text
SystemPrompt == <<"SYSTEM PROMPT">>

\* the f-string of the user message: fixed text around the three inputs
UserContent(path, html, pdf) ==
    <<"TASK ... PDF RESUME (SOURCE OF TRUTH):">> \o pdf
      \o <<"CURRENT HTML FILE (", path, "):">> \o html
      \o <<"SPECIFIC UPDATES REQUIRED ...">>

\* a message is a dict: its key/value pairs in insertion order
build_resume_update_messages(path, html, pdf) ==
    << << <<"role", <<"system">> >>, <<"content", SystemPrompt>> >>,
       << <<"role", <<"user">> >>, <<"content", UserContent(path, html, pdf)>> >> >>

\* json.dumps(..., sort_keys=True) writes the pairs of a dict in key order
SortedKeys == <<"content", "role">>

\* SortedPairs leaving the pairs in the order of insertion
SortedPairs_Unsorted(msg) == msg

SortedPairs(msg) ==
    [n \in 1..Len(msg) |-> msg[CHOOSE i \in 1..Len(msg) : msg[i][1] = SortedKeys[n]]]

\* the escapes of a JSON string (ensure_ascii=False: all else is written as it is)
Escape(c) ==
    CASE c = "\"" -> <<"\\", "\"">>
      [] c = "\\" -> <<"\\", "\\">>
      [] c = "\n" -> <<"\\", "n">>
      [] OTHER -> <<c>>

RECURSIVE EscapeRange(_, _, _)
EscapeRange(s, lo, hi) ==
    IF lo > hi THEN <<>>
    ELSE IF lo = hi THEN Escape(s[lo])
    ELSE LET mid == (lo + hi) \div 2
         IN  EscapeRange(s, lo, mid) \o EscapeRange(s, mid + 1, hi)

\* a str as JSON text
JsonString(text) == <<"\"">> \o EscapeRange(text, 1, Len(text)) \o <<"\"">>

RECURSIVE JoinComma(_)
JoinComma(texts) ==
    IF texts = <<>> THEN <<>>
    ELSE IF Len(texts) = 1 THEN texts[1]
    ELSE texts[1] \o <<",", " ">> \o JoinComma(Tail(texts))

\* a dict as JSON text: "key": "value" pairs in key order
JsonObject(msg) ==
    <<"{">>
      \o JoinComma([n \in 1..Len(msg) |->
            JsonString(<<SortedPairs(msg)[n][1]>>) \o <<":", " ">>
              \o JsonString(SortedPairs(msg)[n][2])])
      \o <<"}">>

\* json.dumps(messages, sort_keys=True, ensure_ascii=False)
JsonDumps(messages) ==
    <<"[">> \o JoinComma([i \in 1..Len(messages) |-> JsonObject(messages[i])]) \o <<"]">>

\* hashlib.sha256(...).hexdigest(): taken as collision free
Sha256Hex(text) == <<"sha256", text>>

\* key of cached_generate
CacheKey(messages) == Sha256Hex(JsonDumps(messages))

(***************************************************************************)
(* The cache file.                                                         *)
(***************************************************************************)
EmptyTable == <<>>

\* LoadCache taking the pairs of a file json.load rejects
LoadCache_Unchecked(file) == IF file.exists THEN file.table ELSE EmptyTable

\* _load_cache: a missing or unparseable file is the empty table
LoadCache(file) == IF file.exists /\ file.parseable THEN file.table ELSE EmptyTable

\* CacheHit never finding the key
CacheHit_Never(cache, key) == FALSE

\* the if key in cache of cached_generate
CacheHit(cache, key) == key \in DOMAIN cache

\* CachePut keeping the new pair only
CachePut_Replace(cache, key, resp) == key :> resp

\* CachePut losing the new pair
CachePut_Lost(cache, key, resp) == cache

\* cache[key] = resp
CachePut(cache, key, resp) == (key :> resp) @@ cache

\* SavedCache leaving no file behind
SavedCache_Dropped(cache) == [exists |-> FALSE, parseable |-> FALSE, table |-> EmptyTable]

\* _save_cache: a full rewrite of the file
SavedCache(cache) == [exists |-> TRUE, parseable |-> TRUE, table |-> cache]

(***************************************************************************)
(* Completion client.                                                      *)
(***************************************************************************)
NoError == [class |-> "None", attempt |-> 0]

\* ErrorOf taking every exception for the transient class
ErrorOf_Transient(class, attempt) == [class |-> "APIError", attempt |-> attempt]

\* the exception object raised by the attempt
ErrorOf(class, attempt) == [class |-> class, attempt |-> attempt]

\* BackoffDelay without the attempt factor
BackoffDelay_Flat(attempt) == BackoffBase

\* time.sleep(3 * attempt)
BackoffDelay(attempt) == BackoffBase * attempt

\* the loop goes on to a next attempt after a transient failure
HasNextAttempt(attempt) == attempt < Retries

NoException == [type |-> "None", cause |-> NoError]

\* Affirmative taking everything but "n" as a yes
Affirmative_DefaultYes(ans) == Lower(Strip(ans)) # <<"n">>

(***************************************************************************)
(* Operator input.                                                         *)
(***************************************************************************)
\* input(...).strip().lower() == 'y'
Affirmative(ans) == Lower(Strip(ans)) = <<"y">>


(***************************************************************************)
(* The files and the inputs of the environment.                            *)
(***************************************************************************)
\* the html files the operator names in an update command
HtmlPaths == {"resume.html", "index.html"}

\* backup = path + BACKUP_SUFFIX
BackupPath(path) == path \o BACKUP_SUFFIX

\* the resume page on disk before the first run; its last byte is no valid UTF-8
InitialHtml == <<"<", "h", "t", "m", "l", ">", "0xFF">>

\* read_file: open(..., errors="replace") decodes an undecodable byte to U+FFFD
read_file(bytes) == [i \in 1..Len(bytes) |-> IF bytes[i] = "0xFF" THEN "U+FFFD" ELSE bytes[i]]

\* an older backup
OldBackup == <<"<", "h", "t", "m", "l", ">", "o", "l", "d">>

\* the pages of the PDF: the second has no extractable text
PdfPages == << <<" ", "c", "v">>, <<>> >>

RECURSIVE JoinLines(_)
JoinLines(pages) ==
    IF pages = <<>> THEN <<>>
    ELSE IF Len(pages) = 1 THEN pages[1]
    ELSE pages[1] \o <<"\n">> \o JoinLines(Tail(pages))

\* extract_pdf_text: "\n".join(text).strip()
extract_pdf_text(pages) == Strip(JoinLines(pages))

\* the marker lies wholly inside updated_html[:200] up to this offset
NearPad == HtmlWindow - Len(HtmlLiteral)
FarPad == NearPad + 1

\* what the model may answer
R_clean == HtmlLiteral \o <<">", "a">>
R_doctype ==
    <<" ", "\n">> \o DoctypeLiteral \o <<"\n", "<", "H", "T", "M", "L", ">", "\n">>
R_edge == Pad("x", NearPad) \o HtmlLiteral \o <<">", "e">>
R_far == Pad("x", FarPad) \o HtmlLiteral \o <<">", "f">>
R_none == <<"s", "o", "r", "r", "y">>
R_doctype_only == DoctypeLiteral \o <<"<", "p", ">">>
R_doctype_far == DoctypeLiteral \o Pad(" ", FarPad) \o <<"<", "H", "t", "m", "l", ">">>
R_dotted == <<"U+0130">> \o Pad("x", FarPad) \o HtmlLiteral \o <<">", "d">>

Responses ==
    {R_clean, R_doctype, R_edge, R_far, R_none, R_doctype_only, R_doctype_far, R_dotted}

\* what the operator may type at a y/N prompt
Answers == {<<" ", "Y">>, <<"n">>, <<>>}
NotAsked == <<"(not asked)">>

(***************************************************************************)
(* What an observer sees in a response, for the properties: where the      *)
(* markers are, found character by character in the text itself.           *)
(***************************************************************************)
\* the offset at which pat first appears in u, in any letter case, or -1
OffsetAnyCase(u, pat) ==
    LET hits == {i \in 0..(Len(u) - Len(pat)) :
                   \A j \in 1..Len(pat) : LowerChar(u[i + j]) = LowerChar(pat[j])}
    IN  IF hits = {} THEN -1 ELSE Min(hits)

\* the offset at which "<html" first appears in u, in any letter case, or -1
MarkerOffset(u) == OffsetAnyCase(u, HtmlLiteral)

\* by how much lower-casing lengthens the first k characters of u
Growth(u, k) ==
    Cardinality({i \in 1..k : Len(LowerChar(u[i])) = 2})

\* the observations on a stripped response
Observed(u) ==
    [marker |-> MarkerOffset(u), doctype |-> OffsetAnyCase(u, DoctypeLiteral),
     growth |-> Growth(u, MarkerOffset(u))]

Unobserved == [marker |-> -1, doctype |-> -1, growth |-> 0]

(***************************************************************************)
(* State.                                                                  *)
(***************************************************************************)
VARIABLES
    fs,             \* path -> content, for the paths that exist
    cache_file,     \* .resume_ai_cache.json
    env_api_key,    \* whether the API key is set in the environment
    proc,           \* the process: "running", "exited", "crashed"
    pc,             \* position in update_resume_flow, "idle" at the shell prompt
    html_path, html_content, pdf_text, messages, updated_html, backup_needed,
    cache, key,     \* locals of cached_generate
    attempt, last_error,    \* locals of generate_response
    raised,         \* the exception that ended the process
    outcome,        \* how the last run of the flow ended
    log,            \* the calls the current run has made, in order
    delays,         \* the sleeps of generate_response in the current run
    attempts,       \* the results of the remote calls of the current run
    apply_input,    \* what the operator typed at the apply prompt
    returned,       \* whether cached_generate returned to the flow
    response,       \* the text it returned
    seen,           \* Observed of the stripped response
    pre_fs, pre_cache,      \* the files when the current run started
    prev,           \* the run before the current one
    runs,           \* update commands so far
    requests,       \* message lists handed to the key computation on its own
    fingerprints    \* the keys computed for them

vars ==
    <<fs, cache_file, env_api_key, proc, pc, html_path, html_content, pdf_text,
      messages, updated_html, backup_needed, cache, key, attempt, last_error, raised,
      outcome, log, delays, attempts, apply_input, returned, response, seen,
      pre_fs, pre_cache, prev, runs, requests, fingerprints>>

flow_locals ==
    <<html_path, html_content, pdf_text, messages, updated_html, backup_needed>>
client_locals == <<cache, key, attempt, last_error>>
files == <<fs, cache_file>>
run_start == <<pre_fs, pre_cache, prev, runs>>
key_io == <<requests, fingerprints>>

PdfPath == PDF_RELATIVE_PATH

NoRun ==
    [valid |-> FALSE, loaded |-> FALSE, returned |-> FALSE, invalid |-> FALSE, path |-> "",
     html_bytes |-> <<>>, pdf_pages |-> <<>>, candidate |-> <<>>]

\* the run that is ending, as the next run sees it: its target, the two files
\* it read, whether cached_generate returned, whether the validation aborted
\* it, and its candidate
LastRun ==
    [valid |-> TRUE, loaded |-> messages # <<>>, returned |-> returned,
     invalid |-> returned /\ outcome = "Aborted",
     path |-> html_path,
     html_bytes |-> IF messages # <<>> THEN pre_fs[html_path] ELSE <<>>,
     pdf_pages |-> IF messages # <<>> THEN pre_fs[PdfPath] ELSE <<>>,
     candidate |-> updated_html]

AbsentCache == [exists |-> FALSE, parseable |-> FALSE, table |-> EmptyTable]
\* a cache file cut off in the middle of its only pair: json.load raises on it
DamagedTable ==
    CacheKey(build_resume_update_messages("resume.html", read_file(InitialHtml),
                                          extract_pdf_text(PdfPages)))
        :> <<"<", "h", "t">>
CorruptCache == [exists |-> TRUE, parseable |-> FALSE, table |-> DamagedTable]

\* the files, the environment and a shell at its prompt
Start ==
    /\ \E pdf \in BOOLEAN, bak \in BOOLEAN :
         fs = [p \in {"resume.html"}
                 \cup (IF bak THEN {BackupPath("resume.html")} ELSE {})
                 \cup (IF pdf THEN {PdfPath} ELSE {}) |->
                 IF p = PdfPath THEN PdfPages
                 ELSE IF p = BackupPath("resume.html") THEN OldBackup
                 ELSE InitialHtml]
    /\ cache_file \in {AbsentCache, CorruptCache}
    /\ env_api_key \in BOOLEAN
    /\ proc = "running"
    /\ pc = "idle"
    /\ html_path = ""
    /\ html_content = <<>>
    /\ pdf_text = <<>>
    /\ messages = <<>>
    /\ updated_html = <<>>
    /\ backup_needed = TRUE
    /\ cache = EmptyTable
    /\ key = <<>>
    /\ attempt = 0
    /\ last_error = NoError
    /\ raised = NoException
    /\ outcome = "none"
    /\ log = <<>>
    /\ delays = <<>>
    /\ attempts = <<>>
    /\ apply_input = NotAsked
    /\ returned = FALSE
    /\ response = <<>>
    /\ seen = Unobserved
    /\ pre_fs = fs
    /\ pre_cache = cache_file
    /\ prev = NoRun
    /\ runs = 0

Init ==
    /\ Start
    /\ requests = <<>>
    /\ fingerprints = <<>>


\* Loading reading the HTML before it checks the PDF
Loading_ReadFirst(disk, path) ==
    IF path \notin DOMAIN disk
      THEN [abort |-> TRUE, log |-> <<>>, html |-> <<>>, pdf |-> <<>>]
    ELSE IF PdfPath \notin DOMAIN disk
      THEN [abort |-> TRUE, log |-> <<"read_file">>, html |-> read_file(disk[path]),
            pdf |-> <<>>]
    ELSE [abort |-> FALSE, log |-> <<"read_file", "extract_pdf_text">>,
          html |-> read_file(disk[path]), pdf |-> extract_pdf_text(disk[PdfPath])]

(***************************************************************************)
(* update_resume_flow.                                                     *)
(***************************************************************************)
\* the existence checks and the two reads, in the order of the code
Loading(disk, path) ==
    IF path \notin DOMAIN disk
      THEN [abort |-> TRUE, log |-> <<>>, html |-> <<>>, pdf |-> <<>>]
    ELSE IF PdfPath \notin DOMAIN disk
      THEN [abort |-> TRUE, log |-> <<>>, html |-> <<>>, pdf |-> <<>>]
    ELSE [abort |-> FALSE, log |-> <<"read_file", "extract_pdf_text">>,
          html |-> read_file(disk[path]), pdf |-> extract_pdf_text(disk[PdfPath])]

\* an exception leaves update_resume_flow and interactive_agent: nothing catches it
Raise(type, cause) ==
    /\ raised' = [type |-> type, cause |-> cause]
    /\ outcome' = "Raised"
    /\ pc' = "idle"
    /\ proc' = "crashed"

\* the shell reads "update <path>" and calls update_resume_flow, which runs up to
\* the call of cached_generate
CmdUpdate(path) ==
    /\ proc = "running"
    /\ pc = "idle"
    /\ runs < MaxRuns
    /\ LET l == Loading(fs, path)
       IN  /\ html_path' = path
           /\ html_content' = l.html
           /\ pdf_text' = l.pdf
           /\ messages' = IF l.abort THEN <<>>
                          ELSE build_resume_update_messages(path, l.html, l.pdf)
           /\ log' = IF l.abort THEN l.log ELSE Append(l.log, "sleep")
           /\ pc' = IF l.abort THEN "idle" ELSE "cached_generate"
           /\ outcome' = IF l.abort THEN "Aborted" ELSE "none"
    /\ runs' = runs + 1
    /\ prev' = IF outcome # "none" THEN LastRun ELSE prev
    /\ pre_fs' = fs
    /\ pre_cache' = cache_file
    /\ updated_html' = <<>>
    /\ backup_needed' = TRUE
    /\ cache' = EmptyTable
    /\ key' = <<>>
    /\ attempt' = 0
    /\ last_error' = NoError
    /\ raised' = NoException
    /\ delays' = <<>>
    /\ attempts' = <<>>
    /\ apply_input' = NotAsked
    /\ returned' = FALSE
    /\ response' = <<>>
    /\ seen' = Unobserved
    /\ UNCHANGED <<files, env_api_key, proc>>
    /\ UNCHANGED key_io

\* cached_generate up to the lookup
CachedGenerate ==
    /\ pc = "cached_generate"
    /\ log' = Append(log, "cached_generate")
    /\ key' = CacheKey(messages)
    /\ LET table == LoadCache(cache_file)
       IN  IF CacheHit(table, key')
             THEN /\ response' = table[key']
                  /\ seen' = Observed(Strip(table[key']))
                  /\ updated_html' = Strip(table[key'])
                  /\ returned' = TRUE
                  /\ pc' = "validate"
                  /\ UNCHANGED <<cache, attempt>>
             ELSE /\ cache' = table
                  /\ attempt' = 1
                  /\ pc' = "generate_response"
                  /\ UNCHANGED <<response, seen, updated_html, returned>>
    /\ UNCHANGED <<files, env_api_key, proc, html_path, html_content, pdf_text,
                   messages, backup_needed, last_error, raised, outcome, delays,
                   attempts, apply_input, run_start>>
    /\ UNCHANGED key_io

\* an attempt of generate_response that returns; cached_generate stores the
\* response and saves the table, and the flow strips what it gets
AttemptOk ==
    /\ pc = "generate_response"
    /\ env_api_key
    /\ \E r \in Responses :
         /\ attempts' = Append(attempts, [kind |-> "ok", text |-> r])
         /\ cache' = CachePut(cache, key, r)
         /\ cache_file' = SavedCache(cache')
         /\ response' = r
         /\ seen' = Observed(Strip(r))
         /\ updated_html' = Strip(r)
    /\ log' = Append(log, "completion")
    /\ returned' = TRUE
    /\ pc' = "validate"
    /\ UNCHANGED <<fs, env_api_key, proc, html_path, html_content, pdf_text,
                   messages, backup_needed, key, attempt, last_error, raised, outcome,
                   delays, apply_input, run_start>>
    /\ UNCHANGED key_io

\* an attempt that raises APIError: sleep, then the next attempt or, after the
\* last one, the raise after the loop
AttemptTransient ==
    /\ pc = "generate_response"
    /\ env_api_key
    /\ attempts' = Append(attempts, [kind |-> "APIError", text |-> <<>>])
    /\ log' = Append(log, "completion")
    /\ last_error' = ErrorOf("APIError", attempt)
    /\ delays' = Append(delays, BackoffDelay(attempt))
    /\ IF HasNextAttempt(attempt)
         THEN /\ attempt' = attempt + 1
              /\ UNCHANGED <<raised, outcome, pc, proc>>
         ELSE /\ Raise("RuntimeError", last_error')
              /\ UNCHANGED attempt
    /\ UNCHANGED <<files, env_api_key, flow_locals, cache, key, apply_input, returned,
                   response, seen, run_start>>
    /\ UNCHANGED key_io

\* an attempt that raises another exception: break, then the raise
AttemptFatal ==
    /\ pc = "generate_response"
    /\ env_api_key
    /\ attempts' = Append(attempts, [kind |-> "Exception", text |-> <<>>])
    /\ log' = Append(log, "completion")
    /\ last_error' = ErrorOf("Exception", attempt)
    /\ Raise("RuntimeError", last_error')
    /\ UNCHANGED <<files, env_api_key, flow_locals, cache, key, attempt, delays,
                   apply_input, returned, response, seen, run_start>>
    /\ UNCHANGED key_io

\* get_api_key raises inside the try: the except Exception clause takes it
AttemptNoKey ==
    /\ pc = "generate_response"
    /\ ~env_api_key
    /\ last_error' = ErrorOf("RuntimeError", attempt)
    /\ Raise("RuntimeError", last_error')
    /\ UNCHANGED <<files, env_api_key, flow_locals, cache, key, attempt, delays,
                   attempts, log, apply_input, returned, response, seen, run_start>>
    /\ UNCHANGED key_io

\* the validation, and the preview of what passes
Validate ==
    /\ pc = "validate"
    /\ LET v == Validation(updated_html)
       IN  IF v.ok
             THEN /\ updated_html' = v.html
                  /\ log' = Append(log, "preview")
                  /\ pc' = "backup_prompt"
                  /\ UNCHANGED outcome
             ELSE /\ outcome' = "Aborted"
                  /\ pc' = "idle"
                  /\ UNCHANGED <<updated_html, log>>
    /\ UNCHANGED <<files, env_api_key, proc, html_path, html_content, pdf_text,
                   messages, backup_needed, client_locals, raised, delays, attempts,
                   apply_input, returned, response, seen, run_start>>
    /\ UNCHANGED key_io

\* backup_needed: asked only when a backup exists
BackupPrompt ==
    /\ pc = "backup_prompt"
    /\ IF BackupPath(html_path) \in DOMAIN fs
         THEN \E ans \in Answers :
                /\ backup_needed' = Affirmative(ans)
                /\ log' = Append(log, "input_backup")
         ELSE /\ backup_needed' = TRUE
              /\ UNCHANGED log
    /\ pc' = "apply_prompt"
    /\ UNCHANGED <<files, env_api_key, proc, html_path, html_content, pdf_text,
                   messages, updated_html, client_locals, raised, outcome, delays,
                   attempts, apply_input, returned, response, seen, run_start>>
    /\ UNCHANGED key_io

\* ApplyPrompt making the backup whatever backup_needed says
ApplyPrompt_AlwaysBackup ==
    /\ pc = "apply_prompt"
    /\ \E ans \in Answers :
         /\ apply_input' = ans
         /\ IF Affirmative(ans)
              THEN /\ pc' = "backup_file"
                   /\ UNCHANGED outcome
              ELSE /\ outcome' = "Cancelled"
                   /\ pc' = "idle"
    /\ log' = Append(log, "input_apply")
    /\ UNCHANGED <<files, env_api_key, proc, flow_locals, client_locals, raised,
                   delays, attempts, returned, response, seen, run_start>>
    /\ UNCHANGED key_io

\* "Apply FULL HTML update? (y/N)"
ApplyPrompt ==
    /\ pc = "apply_prompt"
    /\ \E ans \in Answers :
         /\ apply_input' = ans
         /\ IF Affirmative(ans)
              THEN /\ pc' = IF backup_needed THEN "backup_file" ELSE "write_open"
                   /\ UNCHANGED outcome
              ELSE /\ outcome' = "Cancelled"
                   /\ pc' = "idle"
    /\ log' = Append(log, "input_apply")
    /\ UNCHANGED <<files, env_api_key, proc, flow_locals, client_locals, raised,
                   delays, attempts, returned, response, seen, run_start>>
    /\ UNCHANGED key_io

\* BackupFile saving the text the flow has read in place of the bytes of the file
BackupFile_Decoded ==
    /\ pc = "backup_file"
    /\ fs' = (BackupPath(html_path) :> html_content) @@ fs
    /\ log' = Append(log, "backup_file")
    /\ pc' = "write_open"
    /\ UNCHANGED <<cache_file, env_api_key, proc, flow_locals, client_locals, raised,
                   outcome, delays, attempts, apply_input, returned, response, seen,
                   run_start>>
    /\ UNCHANGED key_io

\* backup_file: shutil.copy2 copies the bytes of the file
BackupFile ==
    /\ pc = "backup_file"
    /\ fs' = (BackupPath(html_path) :> fs[html_path]) @@ fs
    /\ log' = Append(log, "backup_file")
    /\ pc' = "write_open"
    /\ UNCHANGED <<cache_file, env_api_key, proc, flow_locals, client_locals, raised,
                   outcome, delays, attempts, apply_input, returned, response, seen,
                   run_start>>
    /\ UNCHANGED key_io

\* shutil.copy2 cannot open the backup for writing and raises
BackupFails ==
    /\ pc = "backup_file"
    /\ log' = Append(log, "backup_file")
    /\ Raise("OSError", NoError)
    /\ UNCHANGED <<files, env_api_key, flow_locals, client_locals, delays, attempts,
                   apply_input, returned, response, seen, run_start>>
    /\ UNCHANGED key_io

\* write_file: open(path, "w") truncates the file
WriteOpen ==
    /\ pc = "write_open"
    /\ fs' = (html_path :> <<>>) @@ fs
    /\ log' = Append(log, "write_file")
    /\ pc' = "write_data"
    /\ UNCHANGED <<cache_file, env_api_key, proc, flow_locals, client_locals, raised,
                   outcome, delays, attempts, apply_input, returned, response, seen,
                   run_start>>
    /\ UNCHANGED key_io

\* write_file: f.write(content) and the close; then the summary of the flow
WriteData ==
    /\ pc = "write_data"
    /\ fs' = (html_path :> updated_html) @@ fs
    /\ outcome' = "Done"
    /\ pc' = "idle"
    /\ UNCHANGED <<cache_file, env_api_key, proc, flow_locals, client_locals, raised,
                   log, delays, attempts, apply_input, returned, response, seen,
                   run_start>>
    /\ UNCHANGED key_io

\* f.write or the close raises (disk full, a character UTF-8 cannot encode):
\* what was flushed before stays in the file
WriteFails ==
    /\ pc = "write_data"
    /\ fs' = (html_path :> Slice(updated_html, Len(updated_html) \div 2)) @@ fs
    /\ Raise("OSError", NoError)
    /\ UNCHANGED <<cache_file, env_api_key, flow_locals, client_locals, log, delays,
                   attempts, apply_input, returned, response, seen, run_start>>
    /\ UNCHANGED key_io

(***************************************************************************)
(* The shell and the process.                                              *)
(***************************************************************************)
\* the locals of a process end with it; the next process starts without them
ProcessEnds ==
    /\ prev' = IF outcome # "none" THEN LastRun ELSE prev
    /\ html_path' = ""
    /\ html_content' = <<>>
    /\ pdf_text' = <<>>
    /\ messages' = <<>>
    /\ updated_html' = <<>>
    /\ backup_needed' = TRUE
    /\ cache' = EmptyTable
    /\ key' = <<>>
    /\ attempt' = 0
    /\ last_error' = NoError
    /\ raised' = NoException
    /\ outcome' = "none"
    /\ log' = <<>>
    /\ delays' = <<>>
    /\ attempts' = <<>>
    /\ apply_input' = NotAsked
    /\ returned' = FALSE
    /\ response' = <<>>
    /\ seen' = Unobserved
    /\ pre_fs' = fs
    /\ pre_cache' = cache_file

\* common_paths of "update resume"
CommonPaths ==
    <<"resume.html", "index.html", "templates\\resume.html", "pages\\resume.html">>

\* the paths of the list that exist, by their place in it
ExistingCommon(disk) == {i \in DOMAIN CommonPaths : CommonPaths[i] \in DOMAIN disk}

\* "update resume": the flow on the first path of the list that exists, once, or
\* a message when none exists
CmdUpdateResume ==
    IF ExistingCommon(fs) = {}
      THEN /\ proc = "running"
           /\ pc = "idle"
           /\ UNCHANGED vars
      ELSE CmdUpdate(CommonPaths[Min(ExistingCommon(fs))])

\* empty input, "ls", "update" without a file name, or an unknown command: the
\* shell prints at most some lines and prompts again
CmdOther ==
    /\ proc = "running"
    /\ pc = "idle"
    /\ UNCHANGED vars

\* "exit" at the prompt: the loop breaks and the process ends
CmdExit ==
    /\ proc = "running"
    /\ pc = "idle"
    /\ proc' = "exited"
    /\ ProcessEnds
    /\ UNCHANGED <<files, env_api_key, pc, runs>>
    /\ UNCHANGED key_io

\* the operator starts the script again, after an exit or a traceback
Launch ==
    /\ proc \in {"exited", "crashed"}
    /\ proc' = "running"
    /\ ProcessEnds
    /\ UNCHANGED <<files, env_api_key, pc, runs>>
    /\ UNCHANGED key_io

Next ==
    \/ \E path \in HtmlPaths : CmdUpdate(path)
    \/ CmdUpdateResume
    \/ CmdOther
    \/ CachedGenerate
    \/ AttemptOk
    \/ AttemptTransient
    \/ AttemptFatal
    \/ AttemptNoKey
    \/ Validate
    \/ BackupPrompt
    \/ ApplyPrompt
    \/ BackupFile
    \/ BackupFails
    \/ WriteOpen
    \/ WriteData
    \/ WriteFails
    \/ CmdExit
    \/ Launch

Spec == Init /\ [][Next]_vars

(***************************************************************************)
(* The key computation of cached_generate on its own, applied to two       *)
(* message lists.                                                          *)
(***************************************************************************)
\* the characters of a content: a letter and the quote JSON escapes
ContentChars == {"a", "\""}

Contents == UNION {[1..k -> ContentChars] : k \in 0..MaxContentLen}

Roles == {<<"system">>, <<"user">>}

\* a message dict, its keys inserted in either order
MessageDicts ==
    UNION {{<< <<"role", r>>, <<"content", c>> >>, << <<"content", c>>, <<"role", r>> >>} :
             r \in Roles, c \in Contents}

SystemMessage == << <<"role", <<"system">> >>, <<"content", SystemPrompt>> >>

\* a list of one message, or of the system message and one more
MessageLists == {<<m>> : m \in MessageDicts} \cup {<<SystemMessage, m>> : m \in MessageDicts}

NoKey == <<"no key yet">>

KeyInit ==
    /\ Start
    /\ DOMAIN fs = {"resume.html", PdfPath}
    /\ cache_file = AbsentCache
    /\ env_api_key
    /\ requests \in MessageLists \X MessageLists
    /\ fingerprints = <<NoKey, NoKey>>

\* the first two lines of cached_generate, for the request i
Fingerprint(i) ==
    /\ fingerprints[i] = NoKey
    /\ fingerprints' = [fingerprints EXCEPT ![i] = CacheKey(requests[i])]
    /\ UNCHANGED <<files, env_api_key, proc, pc, flow_locals, client_locals, raised,
                   outcome, log, delays, attempts, apply_input, returned, response,
                   seen, run_start, requests>>

KeyNext == \E i \in 1..2 : Fingerprint(i)

KeySpec == KeyInit /\ [][KeyNext]_vars


(***************************************************************************)
(* Vocabulary of the properties.                                           *)
(***************************************************************************)
\* a run of the flow is going on, or has ended in this process
RunVisible == pc # "idle" \/ outcome # "none"

\* the file is as it was when the current run started
FileSame(f) == IF f \in DOMAIN pre_fs THEN f \in DOMAIN fs /\ fs[f] = pre_fs[f]
               ELSE f \notin DOMAIN fs

Logged(event) == \E i \in DOMAIN log : log[i] = event

CountLogged(event) == Cardinality({i \in DOMAIN log : log[i] = event})

\* the response as the flow sees it
Stripped == Strip(response)

\* an answer that is a y once blanks are dropped
TypedYes(ans) == Strip(ans) \in {<<"y">>, <<"Y">>}

\* no doctype and no "<html" anywhere in the stripped response, in any letter case
NoMarker == seen.marker = -1 /\ seen.doctype = -1

\* the key of the current run and the table the cache file held when it started
RunKey == key
TableAtStart == LoadCache(pre_cache)

(***************************************************************************)
(* C1: a response without any HTML marker (no doctype, no "<html", in any  *)
(* letter case) is never written: the flow stops at the validation, ends   *)
(* Aborted, and the target file is as it was before the run.               *)
(***************************************************************************)
C1_NoMarkerAborts ==
    (returned /\ NoMarker) =>
        /\ pc \in {"validate", "idle"}
        /\ pc = "idle" => outcome = "Aborted"
        /\ ~Logged("write_file")
        /\ FileSame(html_path)

C1_Witness ==
    /\ returned
    /\ NoMarker
    /\ pc = "idle"
    /\ outcome = "Aborted"

(***************************************************************************)
(* C2: when the answer to "Apply FULL HTML update?" is not a y (empty      *)
(* input included), the flow ends Cancelled and the target and the backup  *)
(* file are as before the run, whatever was answered at the backup prompt. *)
(***************************************************************************)
C2_DeclineLeavesFiles ==
    (apply_input # NotAsked /\ ~TypedYes(apply_input)) =>
        /\ pc = "idle"
        /\ outcome = "Cancelled"
        /\ FileSame(html_path)
        /\ FileSame(BackupPath(html_path))

C2_Witness ==
    /\ apply_input = <<>>
    /\ Logged("input_backup")
    /\ backup_needed
    /\ outcome = "Cancelled"

(***************************************************************************)
(* C3: when the PDF does not exist at the start of the flow, the flow      *)
(* aborts before it reads the HTML, extracts the PDF, looks into the       *)
(* cache, calls the remote endpoint or prompts the operator, and the HTML  *)
(* file is not modified.                                                   *)
(***************************************************************************)
C3_MissingPdfAbortsFirst ==
    (RunVisible /\ PdfPath \notin DOMAIN pre_fs) =>
        /\ pc = "idle"
        /\ outcome = "Aborted"
        /\ log = <<>>
        /\ html_content = <<>>
        /\ attempts = <<>>
            /\ apply_input = NotAsked
        /\ FileSame(html_path)

C3_Witness ==
    /\ RunVisible
    /\ PdfPath \notin DOMAIN pre_fs
    /\ html_path \in DOMAIN pre_fs
    /\ outcome = "Aborted"

(***************************************************************************)
(* C4: when cached_generate is called with messages whose key is in the    *)
(* table of the cache file, it returns the stored response, makes no       *)
(* remote call and does not rewrite the cache file.                        *)
(***************************************************************************)
C4_HitReturnsStored ==
    (Logged("cached_generate") /\ RunKey \in DOMAIN TableAtStart) =>
        /\ returned
        /\ response = TableAtStart[RunKey]
        /\ attempts = <<>>
        /\ ~Logged("completion")
        /\ cache_file = pre_cache

C4_Witness ==
    /\ Logged("cached_generate")
    /\ RunKey \in DOMAIN TableAtStart
    /\ returned


(***************************************************************************)
(* C5, as claimed: of two consecutive runs of the flow with the same       *)
(* target path and the same bytes in the HTML and the PDF file, the second *)
(* makes no remote call and ends with the candidate of the first.          *)
(***************************************************************************)
SameInputAsPrev ==
    /\ prev.valid
    /\ prev.loaded
    /\ messages # <<>>
    /\ prev.path = html_path
    /\ prev.html_bytes = pre_fs[html_path]
    /\ prev.pdf_pages = pre_fs[PdfPath]

PastValidation == pc \notin {"cached_generate", "generate_response", "validate"}

C5_Original ==
    SameInputAsPrev =>
        /\ attempts = <<>>
        /\ ~Logged("completion")
        /\ (returned /\ PastValidation) => updated_html = prev.candidate

(***************************************************************************)
(* C5, amended: when in the first of the two runs cached_generate returned *)
(* a response to the flow, the second run is a cache hit: it makes no      *)
(* remote call and ends with the candidate of the first.                   *)
(***************************************************************************)
C5_RerunHitsCache ==
    (SameInputAsPrev /\ prev.returned) =>
        /\ attempts = <<>>
        /\ ~Logged("completion")
        /\ pc # "generate_response"
        /\ (returned /\ PastValidation) => updated_html = prev.candidate

C5_Witness ==
    /\ SameInputAsPrev
    /\ prev.returned
    /\ returned
    /\ outcome = "Done"
    /\ updated_html = prev.candidate

(***************************************************************************)
(* C6: when the remote call raises APIError on the attempts 1 and 2 and    *)
(* succeeds on attempt 3, generate_response returns the result of the      *)
(* third attempt after exactly three remote calls and exactly two delays,  *)
(* the second longer than the first.                                       *)
(***************************************************************************)
FailsTwiceThenSucceeds ==
    /\ Len(attempts) >= 3
    /\ attempts[1].kind = "APIError"
    /\ attempts[2].kind = "APIError"
    /\ attempts[3].kind = "ok"

C6_ThirdAttemptWins ==
    FailsTwiceThenSucceeds =>
        /\ returned
        /\ response = attempts[3].text
        /\ Len(attempts) = 3
        /\ CountLogged("completion") = 3
        /\ Len(delays) = 2
        /\ delays[2] > delays[1]

C6_Witness ==
    /\ FailsTwiceThenSucceeds
    /\ returned
    /\ outcome = "Done"

(***************************************************************************)
(* C7, as claimed: when "<html" first appears at an offset k > 0 of the    *)
(* stripped response, the candidate that is previewed, and written on      *)
(* confirmation, is the response without its first k characters, for       *)
(* every k > 0.                                                            *)
(***************************************************************************)
Validated == returned /\ PastValidation

C8_AllOrNothing ==
    (RunVisible /\ html_path \in DOMAIN pre_fs) =>
        \/ FileSame(html_path)
        \/ /\ Validated
           /\ fs[html_path] = updated_html

(***************************************************************************)
(* C9, as claimed: a fatal failure of the completion client ends the flow  *)
(* in Aborted, as the other abort paths do, with the target, the backup    *)
(* and the cache file unchanged.                                           *)
(***************************************************************************)
CompletionFailed == pc = "idle" /\ last_error # NoError

C9_FatalFailureAborts ==
    CompletionFailed =>
        /\ outcome = "Aborted"
        /\ raised = NoException
        /\ FileSame(html_path)
        /\ FileSame(BackupPath(html_path))
        /\ cache_file = pre_cache

(***************************************************************************)
(* C10, as claimed: generate_response makes at most 3 remote attempts,     *)
(* sleeps base x n only between attempt n and attempt n + 1 (two delays    *)
(* when all three attempts fail), and the error it raises on exhaustion    *)
(* carries the cause of the last attempt.                                  *)
(***************************************************************************)
C10_DelaysBetweenAttempts ==
    /\ Len(attempts) <= Retries
    /\ \A n \in DOMAIN delays :
         /\ delays[n] = BackoffBase * n
         /\ \/ n < Len(attempts)
            \/ n = Len(attempts) /\ pc = "generate_response"
    /\ (Len(attempts) = Retries /\ \A n \in DOMAIN attempts : attempts[n].kind = "APIError") =>
         /\ Len(delays) = Retries - 1
         /\ raised = [type |-> "RuntimeError", cause |-> ErrorOf("APIError", Retries)]

(***************************************************************************)
(* C11: when an attempt of generate_response raises an exception that is   *)
(* not APIError, it is the last attempt: no remote call and no delay       *)
(* follow it (the delays are those of the transient failures before it),   *)
(* and the RuntimeError that is raised carries that exception, not an      *)
(* earlier APIError.                                                       *)
(***************************************************************************)
NonTransientAt(n) == n \in DOMAIN attempts /\ attempts[n].kind = "Exception"

C11_NonTransientStops ==
    \A n \in DOMAIN attempts :
        NonTransientAt(n) =>
            /\ n = Len(attempts)
            /\ CountLogged("completion") = n
            /\ pc = "idle"
            /\ Len(delays) = n - 1
            /\ \A m \in 1..(n - 1) : attempts[m].kind = "APIError"
            /\ raised = [type |-> "RuntimeError", cause |-> [class |-> "Exception", attempt |-> n]]

C11_Witness ==
    /\ NonTransientAt(2)
    /\ delays = <<BackoffBase>>
    /\ raised.cause.class = "Exception"
    /\ proc = "crashed"

(***************************************************************************)
(* C12: when the flow makes a backup and then overwrites the target, the   *)
(* backup is made before the write, and from then on the backup file holds *)
(* the bytes the target held before the run.  The backup goes to the one   *)
(* path target + suffix: it replaces an older backup, and no other file    *)
(* appears.                                                                *)
(***************************************************************************)
Position(event) == CHOOSE i \in DOMAIN log : log[i] = event

BackupMade == Logged("backup_file") /\ (pc = "write_open" \/ Logged("write_file"))

C12_BackupBeforeWrite ==
    BackupMade =>
        /\ BackupPath(html_path) \in DOMAIN fs
        /\ fs[BackupPath(html_path)] = pre_fs[html_path]
        /\ DOMAIN fs = DOMAIN pre_fs \cup {BackupPath(html_path)}
        /\ \A f \in DOMAIN pre_fs \ {html_path, BackupPath(html_path)} : FileSame(f)
        /\ CountLogged("backup_file") = 1
        /\ pc = "write_open" => FileSame(html_path)
        /\ Logged("write_file") => Position("backup_file") < Position("write_file")

C12_Witness ==
    /\ BackupMade
    /\ outcome = "Done"
    /\ BackupPath(html_path) \in DOMAIN pre_fs
    /\ pre_fs[BackupPath(html_path)] = OldBackup
    /\ fs[BackupPath(html_path)] = InitialHtml
    /\ fs[html_path] = updated_html

(***************************************************************************)
(* C13: when a backup exists, the operator declines a new one and confirms *)
(* the update, backup_file is not called, the backup file stays as it was  *)
(* and the target is overwritten with the candidate.  When no backup       *)
(* exists and the operator confirms, the backup is made without a          *)
(* question, before the write.                                             *)
(***************************************************************************)
Confirmed == apply_input # NotAsked /\ TypedYes(apply_input)

DeclinedBackup == Logged("input_backup") /\ ~backup_needed

C13_DeclineSkipsBackup ==
    /\ (Confirmed /\ DeclinedBackup) =>
          /\ BackupPath(html_path) \in DOMAIN pre_fs
          /\ ~Logged("backup_file")
          /\ pc \in {"write_open", "write_data", "idle"}
          /\ FileSame(BackupPath(html_path))
          /\ pc = "idle" => outcome \in {"Done", "Raised"}
          /\ outcome = "Raised" => Logged("write_file")
          /\ outcome = "Done" => fs[html_path] = updated_html
    /\ (Confirmed /\ BackupPath(html_path) \notin DOMAIN pre_fs) =>
          /\ ~Logged("input_backup")
          /\ pc = "backup_file" \/ Logged("backup_file")
          /\ (pc = "write_open" \/ Logged("write_file")) =>
                /\ BackupPath(html_path) \in DOMAIN fs
                /\ fs[BackupPath(html_path)] = pre_fs[html_path]

C13_Witness ==
    /\ Confirmed
    /\ DeclinedBackup
    /\ outcome = "Done"
    /\ fs[BackupPath(html_path)] = OldBackup
    /\ fs[html_path] = updated_html
    /\ fs[html_path] # pre_fs[html_path]

(***************************************************************************)
(* C14, as claimed: a response with a doctype declaration within its first *)
(* 100 characters, or "<html" within its first 200, in any letter case,    *)
(* passes the validation as it is: the flow does not abort and the         *)
(* candidate is the whole stripped response.                               *)
(***************************************************************************)
DoctypeLeading ==
    seen.doctype >= 0 /\ seen.doctype + Len(DoctypeLiteral) <= DoctypeWindow

MarkerLeading ==
    seen.marker >= 0 /\ seen.marker + Len(HtmlLiteral) <= HtmlWindow

C14_LeadingMarkerAccepted ==
    (returned /\ pc # "validate" /\ (DoctypeLeading \/ MarkerLeading)) =>
        /\ outcome # "Aborted"
        /\ updated_html = Stripped

(***************************************************************************)
(* C15: with a cache file that exists and cannot be parsed, cached_generate *)
(* does what it does with an empty cache: the lookup is a miss, the        *)
(* completion client is called, no exception comes from the cache file,    *)
(* and a successful completion leaves a cache file with the new pair only. *)
(***************************************************************************)
UnparseableAtStart ==
    Logged("cached_generate") /\ pre_cache.exists /\ ~pre_cache.parseable

ClientCalled == pc = "generate_response" \/ attempts # <<>> \/ last_error # NoError

C15_CorruptCacheIsEmpty ==
    UnparseableAtStart =>
        /\ ClientCalled
        /\ returned => attempts # <<>> /\ response = attempts[Len(attempts)].text
        /\ returned => cache_file = SavedCache(RunKey :> response)
        /\ ~returned => cache_file = pre_cache
        /\ raised # NoException =>
              \/ raised = [type |-> "RuntimeError", cause |-> last_error] /\ last_error # NoError
              \/ raised.type = "OSError" /\ Confirmed

C15_Witness ==
    /\ UnparseableAtStart
    /\ RunKey \in DOMAIN pre_cache.table
    /\ returned
    /\ cache_file.parseable
    /\ outcome = "Done"

(***************************************************************************)
(* C16: the key is a function of the role/content sequence of the message  *)
(* list.  Two lists with the same roles and contents in the same order     *)
(* have the same key, in whatever order the keys of each message were      *)
(* inserted; two lists whose contents differ in one character, and any two *)
(* lists with different role/content sequences, have different keys.       *)
(***************************************************************************)
ValueOf(msg, k) == msg[CHOOSE i \in 1..Len(msg) : msg[i][1] = k][2]

RoleContent(list) ==
    [i \in 1..Len(list) |-> <<ValueOf(list[i], "role"), ValueOf(list[i], "content")>>]

BothKeyed == Len(fingerprints) = 2 /\ fingerprints[1] # NoKey /\ fingerprints[2] # NoKey

\* the same list but for one character of one content
DifferInOneCharacter(a, b) ==
    /\ Len(a) = Len(b)
    /\ \E i \in 1..Len(a) :
         /\ \A j \in 1..Len(a) : j # i => RoleContent(a)[j] = RoleContent(b)[j]
         /\ RoleContent(a)[i][1] = RoleContent(b)[i][1]
         /\ Len(RoleContent(a)[i][2]) = Len(RoleContent(b)[i][2])
         /\ Cardinality({n \in 1..Len(RoleContent(a)[i][2]) :
                           RoleContent(a)[i][2][n] # RoleContent(b)[i][2][n]}) = 1

C16_KeyOfRoleContent ==
    BothKeyed =>
        /\ RoleContent(requests[1]) = RoleContent(requests[2]) =>
              fingerprints[1] = fingerprints[2]
        /\ DifferInOneCharacter(requests[1], requests[2]) =>
              fingerprints[1] # fingerprints[2]
        /\ RoleContent(requests[1]) # RoleContent(requests[2]) =>
              fingerprints[1] # fingerprints[2]
        /\ \A i \in 1..2 : fingerprints[i] = CacheKey(requests[i])

C16_Witness ==
    /\ BothKeyed
    /\ requests[1] # requests[2]
    /\ RoleContent(requests[1]) = RoleContent(requests[2])
    /\ Len(requests[1]) = 2
    /\ fingerprints[1] = fingerprints[2]

(***************************************************************************)
(* C17, as claimed: the question about overwriting an existing backup is   *)
(* put only after an affirmative answer at the apply prompt, and a run     *)
(* that ends Cancelled has put no backup question.                         *)
(***************************************************************************)
C17_BackupQuestionAfterConfirm ==
    /\ Logged("input_backup") =>
          /\ Logged("input_apply")
          /\ Position("input_apply") < Position("input_backup")
          /\ Confirmed
    /\ outcome = "Cancelled" => ~Logged("input_backup")

(***************************************************************************)
(* C18: on a miss whose completion succeeds, the cache file holds, when    *)
(* cached_generate returns, the table loaded at the start of the call plus *)
(* the new pair.  When the completion client fails the cache file is not   *)
(* written.  Every pair of a parseable cache file stays in it with its     *)
(* value.                                                                  *)
(***************************************************************************)
MissCompleted == returned /\ attempts # <<>>

C18_MissPersistsTable ==
    /\ MissCompleted =>
          /\ RunKey \notin DOMAIN TableAtStart
          /\ cache_file.exists /\ cache_file.parseable
          /\ DOMAIN cache_file.table = DOMAIN TableAtStart \cup {RunKey}
          /\ cache_file.table[RunKey] = response
    /\ (Logged("cached_generate") /\ ~returned) => cache_file = pre_cache
    /\ \A k \in DOMAIN TableAtStart :
          /\ k \in DOMAIN LoadCache(cache_file)
          /\ LoadCache(cache_file)[k] = TableAtStart[k]

C18_Witness ==
    /\ MissCompleted
    /\ Cardinality(DOMAIN TableAtStart) = 1
    /\ Cardinality(DOMAIN cache_file.table) = 2
    /\ \A k \in DOMAIN TableAtStart : cache_file.table[k] = TableAtStart[k]

(***************************************************************************)
(* C19: the response is stored before it is validated.  When a run got a   *)
(* response that failed the validation, the next run with the same target  *)
(* path and the same bytes in the HTML and the PDF file gets that response *)
(* from the cache, makes no remote call and ends Aborted again.            *)
(***************************************************************************)
PrevFailedValidation == prev.returned /\ prev.invalid

RerunOfInvalid == SameInputAsPrev /\ PrevFailedValidation

C19_InvalidResponseSticks ==
    RerunOfInvalid =>
        /\ pc \in {"cached_generate", "validate", "idle"}
        /\ attempts = <<>>
        /\ ~Logged("completion")
        /\ returned => Stripped = prev.candidate
        /\ pc = "idle" => outcome = "Aborted" /\ returned
        /\ FileSame(html_path)
        /\ cache_file = pre_cache

C19_Witness ==
    /\ RerunOfInvalid
    /\ returned
    /\ pc = "idle"
    /\ outcome = "Aborted"

(***************************************************************************)
(* C20, as claimed: the command loop ends only on "exit".  After an update *)
(* command whose flow has ended, in whatever way (a failure of the         *)
(* completion client included), the shell is at its prompt again, and no   *)
(* exception has ended the process.                                        *)
(***************************************************************************)
FlowEnded == pc = "idle" /\ outcome # "none"

C20_ShellPromptsAgain ==
    /\ FlowEnded =>
          /\ proc = "running"
          /\ outcome \in {"Done", "Cancelled", "Aborted"}
    /\ proc # "running" => proc = "exited" /\ raised = NoException

====
